---------------------------- MODULE Spec2Model ----------------------------
(***************************************************************************)
(* A model of the utility functions of octocanvas that its unit tests      *)
(* define inline: calculateRarity (power level -> rarity tier),            *)
(* getCleanUsername, the top-language ranking, the contribution and        *)
(* repository totals, and the configuration tables; and of the Button      *)
(* component as its tests use it.                                          *)
(*                                                                         *)
(* The functions compute on JavaScript numbers, which are IEEE-754         *)
(* binary64 values.  The model keeps that arithmetic: a number is a sign,  *)
(* an odd significand and a binary exponent, and every product and sum     *)
(* is rounded to 53 significant bits, ties to even, as the hardware does.  *)
(* Significands need 53 bits, more than TLC's integers hold, so they are   *)
(* kept as sequences of 15-bit limbs, least significant first.             *)
(***************************************************************************)
EXTENDS Integers, Sequences, FiniteSets, TLC

VARIABLES
    metrics,       \* arguments of the latest calculateRarity call
    powerLevel,    \* the const powerLevel of that call
    rarity,        \* the value the call returned ("none" before any call)
    prevMetrics,   \* the same three for the call before it
    prevPower,
    prevRarity,
    username,      \* argument of the latest getCleanUsername call
    cleaned,       \* the value it returned
    pc,            \* "idle" until one of the computations below has run
    languageCount, \* the name -> count object, as its entries in key order
    topLanguages,  \* the const topLanguages computed from it
    weeks,         \* the contribution weeks, each the counts of its days
    total,         \* the const total computed from them
    repositories,  \* the repository records (the const repos)
    totalStars,    \* the consts totalStars and totalForks computed from
    totalForks,    \* them
    lookup,        \* the latest read of a configuration table entry
    prevLookup,    \* the read before it
    disabled,      \* per button: its disabled prop
    handlerCalls,  \* per button: the calls its onClick handler received
    clicks,        \* per button: the clicks made, by the disabled prop then
    controlValue,  \* per form control: the value its element shows
    userChanges,   \* per form control: the changes the user has made
    changeCalls,   \* per form control: the arguments onChange was called with
    icons,         \* the icons rendered into one container, in order
    running,       \* the test that is running, or "none"
    finished,      \* the tests that have run
    mounted,       \* the trees in the document, each with the test it is of
    observed       \* what the tests found in the document when they looked

rarityVars == <<metrics, powerLevel, rarity, prevMetrics, prevPower,
                prevRarity>>

usernameVars == <<username, cleaned>>

languageVars == <<languageCount, topLanguages>>

contributionVars == <<weeks, total>>

statsVars == <<repositories, totalStars, totalForks>>

tableVars == <<lookup, prevLookup>>

buttonVars == <<disabled, handlerCalls, clicks>>

controlVars == <<controlValue, userChanges, changeCalls>>

iconVars == <<icons>>

runnerVars == <<running, finished, mounted, observed>>

vars == <<rarityVars, usernameVars, pc, languageVars, contributionVars,
          statsVars, tableVars, buttonVars,
                   controlVars, iconVars, runnerVars>>

---------------------------------------------------------------------------
(* Natural numbers of any size: sequences of limbs, least significant      *)
(* first, no zero limb at the top; <<>> is 0.                              *)

Base == 2^15

RECURSIVE BTrim(_)
BTrim(a) ==
    IF a = <<>> THEN <<>>
    ELSE IF a[Len(a)] = 0 THEN BTrim(SubSeq(a, 1, Len(a) - 1))
    ELSE a

RECURSIVE BFromInt(_)
BFromInt(n) ==
    IF n = 0 THEN <<>> ELSE <<n % Base>> \o BFromInt(n \div Base)

RECURSIVE BAddC(_, _, _)
BAddC(a, b, c) ==
    IF a = <<>> /\ b = <<>> THEN (IF c = 0 THEN <<>> ELSE <<c>>)
    ELSE LET x == IF a = <<>> THEN 0 ELSE Head(a)
             y == IF b = <<>> THEN 0 ELSE Head(b)
             s == x + y + c
         IN  <<s % Base>> \o BAddC(IF a = <<>> THEN <<>> ELSE Tail(a),
                                   IF b = <<>> THEN <<>> ELSE Tail(b),
                                   s \div Base)

BAdd(a, b) == BAddC(a, b, 0)

\* a - b - c for a >= b + c, untrimmed
RECURSIVE BSubC(_, _, _)
BSubC(a, b, c) ==
    IF a = <<>> THEN <<>>
    ELSE LET y == IF b = <<>> THEN 0 ELSE Head(b)
             d == Head(a) - y - c
         IN  <<d % Base>> \o BSubC(Tail(a),
                                   IF b = <<>> THEN <<>> ELSE Tail(b),
                                   IF d < 0 THEN 1 ELSE 0)

BSub(a, b) == BTrim(BSubC(a, b, 0))

\* -1, 0, 1 as a < b, a = b, a > b
RECURSIVE BCmpTop(_, _, _)
BCmpTop(a, b, i) ==
    IF i = 0 THEN 0
    ELSE IF a[i] < b[i] THEN -1
    ELSE IF a[i] > b[i] THEN 1
    ELSE BCmpTop(a, b, i - 1)

BCmp(a, b) ==
    IF Len(a) < Len(b) THEN -1
    ELSE IF Len(a) > Len(b) THEN 1
    ELSE BCmpTop(a, b, Len(a))

\* a * k + c for 0 <= k, c < Base
RECURSIVE BMulSmall(_, _, _)
BMulSmall(a, k, c) ==
    IF a = <<>> THEN (IF c = 0 THEN <<>> ELSE <<c>>)
    ELSE LET p == Head(a) * k + c
         IN  <<p % Base>> \o BMulSmall(Tail(a), k, p \div Base)

RECURSIVE BMulAcc(_, _)
BMulAcc(a, b) ==
    IF b = <<>> THEN <<>>
    ELSE BAdd(BMulSmall(a, Head(b), 0), <<0>> \o BMulAcc(a, Tail(b)))

BMul(a, b) == BTrim(BMulAcc(a, b))

\* quotient and remainder of a by d, 0 < d <= Base
RECURSIVE BDivSmall(_, _)
BDivSmall(a, d) ==
    IF a = <<>> THEN [q |-> <<>>, r |-> 0]
    ELSE LET hi  == BDivSmall(Tail(a), d)
             cur == hi.r * Base + Head(a)
         IN  [q |-> <<cur \div d>> \o hi.q, r |-> cur % d]

RECURSIVE Zeros(_)
Zeros(n) == IF n = 0 THEN <<>> ELSE <<0>> \o Zeros(n - 1)

\* a * 2^n
BShl(a, n) ==
    IF a = <<>> THEN <<>>
    ELSE Zeros(n \div 15) \o BMulSmall(a, 2^(n % 15), 0)

\* floor(a / 2^n)
BShr(a, n) ==
    IF n \div 15 >= Len(a) THEN <<>>
    ELSE BTrim(BDivSmall(SubSeq(a, n \div 15 + 1, Len(a)), 2^(n % 15)).q)

RECURSIVE IntBitLen(_)
IntBitLen(n) == IF n = 0 THEN 0 ELSE 1 + IntBitLen(n \div 2)

BBitLen(a) ==
    IF a = <<>> THEN 0 ELSE 15 * (Len(a) - 1) + IntBitLen(a[Len(a)])

BIsOdd(a) == a # <<>> /\ a[1] % 2 = 1

RECURSIVE IntTrailingZeros(_)
IntTrailingZeros(n) == IF n % 2 = 1 THEN 0 ELSE 1 + IntTrailingZeros(n \div 2)

\* the number of zero bits below the lowest one bit of a > 0
RECURSIVE BTrailingZeros(_)
BTrailingZeros(a) ==
    IF Head(a) = 0 THEN 15 + BTrailingZeros(Tail(a))
    ELSE IntTrailingZeros(Head(a))

---------------------------------------------------------------------------
(* JavaScript numbers.  A finite number is (-1)^neg * m * 2^e with m odd   *)
(* (m = <<>>, e = 0 for zero), which makes equal values equal records.     *)
(* The sign of zero is dropped: the code only ever compares with >=,       *)
(* which cannot tell -0 from +0.                                           *)

Precision == 53

MaxExponent == 1024

NumZero == [k |-> "fin", neg |-> FALSE, m |-> <<>>, e |-> 0]

NumNaN == [k |-> "nan", neg |-> FALSE, m |-> <<>>, e |-> 0]

NumInf(neg) == [k |-> "inf", neg |-> neg, m |-> <<>>, e |-> 0]

\* the record of the exact value (-1)^neg * m * 2^e
Canon(neg, m, e) ==
    IF m = <<>> THEN NumZero
    ELSE LET tz == BTrailingZeros(m)
         IN  [k |-> "fin", neg |-> neg, m |-> BShr(m, tz), e |-> e + tz]

\* the double nearest to (-1)^neg * m * 2^e, ties to even; Infinity past
\* the largest finite double (no operation of the model comes near the
\* subnormal range)
RoundToDouble(neg, m, e) ==
    LET c == Canon(neg, m, e)
        L == BBitLen(c.m)
        shift == L - Precision
        q  == BShr(c.m, shift)
        up == IF shift = 1 THEN BIsOdd(q) ELSE BIsOdd(BShr(c.m, shift - 1))
        r  == IF shift <= 0 THEN c
              ELSE Canon(neg, IF up THEN BAdd(q, <<1>>) ELSE q, c.e + shift)
    IN  IF BBitLen(r.m) + r.e > MaxExponent THEN NumInf(neg) ELSE r

\* an integer of the model as a number (exact: |n| < 2^31)
NumInt(n) == Canon(n < 0, BFromInt(IF n < 0 THEN -n ELSE n), 0)

\* n * 2^e as a number (exact)
NumDyadic(n, e) == Canon(n < 0, BFromInt(IF n < 0 THEN -n ELSE n), e)

\* the number a decimal literal with value n / d denotes: the double nearest
\* to the quotient.  The quotient is taken to 75 fractional bits and one
\* more bit records whether anything was cut off.
DecimalLiteral(n, d) ==
    LET dv == BDivSmall(BShl(BFromInt(n), 75), d)
        q2 == BShl(BTrim(dv.q), 1)
    IN  RoundToDouble(FALSE, IF dv.r = 0 THEN q2 ELSE BAdd(q2, <<1>>), -76)

NumNeg(x) ==
    IF x.k = "nan" \/ x = NumZero THEN x ELSE [x EXCEPT !.neg = ~x.neg]

\* x * y
NumMul(x, y) ==
    IF x.k = "nan" \/ y.k = "nan" THEN NumNaN
    ELSE IF x.k = "inf" \/ y.k = "inf"
         THEN IF x = NumZero \/ y = NumZero THEN NumNaN
              ELSE NumInf(x.neg # y.neg)
    ELSE RoundToDouble(x.neg # y.neg, BMul(x.m, y.m), x.e + y.e)

\* x + y
NumAdd(x, y) ==
    IF x.k = "nan" \/ y.k = "nan" THEN NumNaN
    ELSE IF x.k = "inf"
         THEN IF y.k = "inf" /\ y.neg # x.neg THEN NumNaN ELSE x
    ELSE IF y.k = "inf" THEN y
    ELSE LET e  == IF x.e < y.e THEN x.e ELSE y.e
             mx == BShl(x.m, x.e - e)
             my == BShl(y.m, y.e - e)
             c  == BCmp(mx, my)
         IN  IF x.neg = y.neg THEN RoundToDouble(x.neg, BAdd(mx, my), e)
             ELSE IF c = 0 THEN NumZero
             ELSE IF c > 0 THEN RoundToDouble(x.neg, BSub(mx, my), e)
             ELSE RoundToDouble(y.neg, BSub(my, mx), e)

\* -1, 0, 1 as x < y, x = y, x > y, for x and y other than NaN
NumSign(x) == IF x = NumZero THEN 0 ELSE IF x.neg THEN -1 ELSE 1

NumCmp(x, y) ==
    IF x.k = "inf" \/ y.k = "inf"
    THEN (IF x = y THEN 0
          ELSE IF x.k = "inf" THEN NumSign(x) ELSE -NumSign(y))
    ELSE IF NumSign(x) # NumSign(y)
         THEN (IF NumSign(x) < NumSign(y) THEN -1 ELSE 1)
    ELSE LET e == IF x.e < y.e THEN x.e ELSE y.e
         IN  NumSign(x) * BCmp(BShl(x.m, x.e - e), BShl(y.m, y.e - e))

\* x >= y, x <= y, x < y: false when either is NaN
NumGe(x, y) == x.k # "nan" /\ y.k # "nan" /\ NumCmp(x, y) >= 0

NumLe(x, y) == x.k # "nan" /\ y.k # "nan" /\ NumCmp(x, y) <= 0

NumLt(x, y) == x.k # "nan" /\ y.k # "nan" /\ NumCmp(x, y) < 0

---------------------------------------------------------------------------
(* calculateRarity                                                         *)

\* the numeric literals of the power level formula and of the thresholds
Two == NumInt(2)

One == NumInt(1)

PointOne == DecimalLiteral(1, 10)

Three == NumInt(3)

\* mutants of PowerLevel: stars weighted 2; forks subtracted; negative
\* metrics clamped to 0
PowerLevel_StarsTimesTwo(followers, repos, contributions, stars, forks) ==
    NumAdd(NumAdd(NumAdd(NumAdd(NumMul(followers, Two),
                                NumMul(repos, One)),
                         NumMul(contributions, PointOne)),
                  NumMul(stars, Two)),
           NumMul(forks, Two))

PowerLevel_MinusForks(followers, repos, contributions, stars, forks) ==
    NumAdd(NumAdd(NumAdd(NumAdd(NumMul(followers, Two),
                                NumMul(repos, One)),
                         NumMul(contributions, PointOne)),
                  NumMul(stars, Three)),
           NumNeg(NumMul(forks, Two)))

ClampToZero(x) == IF x.k # "nan" /\ x.neg THEN NumZero ELSE x

PowerLevel_Clamped(followers, repos, contributions, stars, forks) ==
    NumAdd(NumAdd(NumAdd(NumAdd(NumMul(ClampToZero(followers), Two),
                                NumMul(ClampToZero(repos), One)),
                         NumMul(ClampToZero(contributions), PointOne)),
                  NumMul(ClampToZero(stars), Three)),
           NumMul(ClampToZero(forks), Two))

\* the const powerLevel: the sum is evaluated left to right, every product
\* and every partial sum rounded
\* contributions counted whole; forks weighted like stars
PowerLevel_ContributionsWhole(followers, repos, contributions, stars, forks) ==
    NumAdd(NumAdd(NumAdd(NumAdd(NumMul(followers, Two),
                                NumMul(repos, One)),
                         NumMul(contributions, One)),
                  NumMul(stars, Three)),
           NumMul(forks, Two))

\* repositories with the weight -1
PowerLevel_MinusRepos(followers, repos, contributions, stars, forks) ==
    NumAdd(NumAdd(NumAdd(NumAdd(NumMul(followers, Two),
                                NumNeg(NumMul(repos, One))),
                         NumMul(contributions, PointOne)),
                  NumMul(stars, Three)),
           NumMul(forks, Two))

PowerLevel_ForksTimesThree(followers, repos, contributions, stars, forks) ==
    NumAdd(NumAdd(NumAdd(NumAdd(NumMul(followers, Two),
                                NumMul(repos, One)),
                         NumMul(contributions, PointOne)),
                  NumMul(stars, Three)),
           NumMul(forks, Three))

PowerLevel(followers, repos, contributions, stars, forks) ==
    NumAdd(NumAdd(NumAdd(NumAdd(NumMul(followers, Two),
                                NumMul(repos, One)),
                         NumMul(contributions, PointOne)),
                  NumMul(stars, Three)),
           NumMul(forks, Two))

\* mutants of Classify: the labels of two branches exchanged; > for >=;
\* no return after the last if
Classify_SwappedLabels(p) ==
    IF NumGe(p, NumInt(5000)) THEN "mythical"
    ELSE IF NumGe(p, NumInt(2000)) THEN "legendary"
    ELSE IF NumGe(p, NumInt(800)) THEN "rare"
    ELSE IF NumGe(p, NumInt(300)) THEN "epic"
    ELSE IF NumGe(p, NumInt(100)) THEN "uncommon"
    ELSE "common"

Classify_Strict(p) ==
    IF NumLt(NumInt(5000), p) THEN "mythical"
    ELSE IF NumLt(NumInt(2000), p) THEN "legendary"
    ELSE IF NumLt(NumInt(800), p) THEN "epic"
    ELSE IF NumLt(NumInt(300), p) THEN "rare"
    ELSE IF NumLt(NumInt(100), p) THEN "uncommon"
    ELSE "common"

Classify_NoDefault(p) ==
    IF NumGe(p, NumInt(5000)) THEN "mythical"
    ELSE IF NumGe(p, NumInt(2000)) THEN "legendary"
    ELSE IF NumGe(p, NumInt(800)) THEN "epic"
    ELSE IF NumGe(p, NumInt(300)) THEN "rare"
    ELSE IF NumGe(p, NumInt(100)) THEN "uncommon"
    ELSE "undefined"

\* the checks in ascending order: the first one shadows the later ones
Classify_AscendingChecks(p) ==
    IF NumGe(p, NumInt(100)) THEN "uncommon"
    ELSE IF NumGe(p, NumInt(300)) THEN "rare"
    ELSE IF NumGe(p, NumInt(800)) THEN "epic"
    ELSE IF NumGe(p, NumInt(2000)) THEN "legendary"
    ELSE IF NumGe(p, NumInt(5000)) THEN "mythical"
    ELSE "common"

\* the chain of if (powerLevel >= ...) return ...; statements
Classify(p) ==
    IF NumGe(p, NumInt(5000)) THEN "mythical"
    ELSE IF NumGe(p, NumInt(2000)) THEN "legendary"
    ELSE IF NumGe(p, NumInt(800)) THEN "epic"
    ELSE IF NumGe(p, NumInt(300)) THEN "rare"
    ELSE IF NumGe(p, NumInt(100)) THEN "uncommon"
    ELSE "common"

calculateRarity(followers, repos, contributions, stars, forks) ==
    Classify(PowerLevel(followers, repos, contributions, stars, forks))

---------------------------------------------------------------------------
(* RARITY_LEVELS: a color is the sequence of its characters, a gradient    *)
(* the sequence of its space-separated classes.                            *)

\* mutant of RARITY_LEVELS: the last entry left out
RARITY_LEVELS_NoMythical ==
    [common |->
        [name |-> "Common",
         color |-> <<"#", "9", "0", "9", "6", "9", "2">>,
         gradient |-> <<"from-gray-500", "to-gray-600">>],
     uncommon |->
        [name |-> "Uncommon",
         color |-> <<"#", "8", "C", "F", "2", "A", "6">>,
         gradient |-> <<"from-green-400", "to-green-500">>],
     rare |->
        [name |-> "Rare",
         color |-> <<"#", "5", "8", "A", "6", "F", "F">>,
         gradient |-> <<"from-blue-400", "to-blue-500">>],
     epic |->
        [name |-> "Epic",
         color |-> <<"#", "D", "C", "F", "F", "9", "6">>,
         gradient |-> <<"from-yellow-400", "to-lime-400">>],
     legendary |->
        [name |-> "Legendary",
         color |-> <<"#", "B", "C", "8", "C", "F", "F">>,
         gradient |-> <<"from-purple-400", "to-purple-500">>]]

RARITY_LEVELS ==
    [common |->
        [name |-> "Common",
         color |-> <<"#", "9", "0", "9", "6", "9", "2">>,
         gradient |-> <<"from-gray-500", "to-gray-600">>],
     uncommon |->
        [name |-> "Uncommon",
         color |-> <<"#", "8", "C", "F", "2", "A", "6">>,
         gradient |-> <<"from-green-400", "to-green-500">>],
     rare |->
        [name |-> "Rare",
         color |-> <<"#", "5", "8", "A", "6", "F", "F">>,
         gradient |-> <<"from-blue-400", "to-blue-500">>],
     epic |->
        [name |-> "Epic",
         color |-> <<"#", "D", "C", "F", "F", "9", "6">>,
         gradient |-> <<"from-yellow-400", "to-lime-400">>],
     legendary |->
        [name |-> "Legendary",
         color |-> <<"#", "B", "C", "8", "C", "F", "F">>,
         gradient |-> <<"from-purple-400", "to-purple-500">>],
     mythical |->
        [name |-> "Mythical",
         color |-> <<"#", "5", "F", "E", "D", "8", "3">>,
         gradient |-> <<"from-green-300", "to-green-400">>]]

---------------------------------------------------------------------------
(* getCleanUsername: a string is the sequence of its characters.           *)

\* characters String.prototype.trim removes (those the model's strings use)
WhiteSpace == {" ", "\t", "\n"}

\* mutant of ReplaceLeadingAt: username.replace(/^@+/, "")
RECURSIVE ReplaceLeadingAt_AllLeading(_)
ReplaceLeadingAt_AllLeading(s) ==
    IF s # <<>> /\ Head(s) = "@" THEN ReplaceLeadingAt_AllLeading(Tail(s))
    ELSE s

\* username.replace(/^@/, "")
ReplaceLeadingAt(s) == IF s # <<>> /\ Head(s) = "@" THEN Tail(s) ELSE s

RECURSIVE TrimStart(_)
TrimStart(s) ==
    IF s # <<>> /\ Head(s) \in WhiteSpace THEN TrimStart(Tail(s)) ELSE s

RECURSIVE TrimEnd(_)
TrimEnd(s) ==
    IF s # <<>> /\ s[Len(s)] \in WhiteSpace
    THEN TrimEnd(SubSeq(s, 1, Len(s) - 1)) ELSE s

\* a trim of the start only
Trim_StartOnly(s) == TrimStart(s)

\* s.trim()
Trim(s) == TrimEnd(TrimStart(s))

\* the two steps in the other order: username.trim().replace(/^@/, "")
getCleanUsername_TrimFirst(s) == ReplaceLeadingAt(Trim(s))

getCleanUsername(s) == Trim(ReplaceLeadingAt(s))

---------------------------------------------------------------------------
(* The calls the model makes.                                              *)

MaxDelta == 2

MaxUlps == 2

Ints(t) == [i \in 1..5 |-> NumInt(t[i])]

\* followers alone, at and just below every threshold (tests, lines 99-165)
ThresholdProbes ==
    {Ints(<<f, 0, 0, 0, 0>>) :
        f \in {49, 50, 149, 150, 399, 400, 999, 1000, 2499, 2500}}

\* the other argument tuples of the tests
TestTuples ==
    {Ints(t) : t \in {
        <<0, 0, 0, 0, 0>>, <<10, 5, 10, 0, 0>>, <<30, 20, 100, 0, 0>>,
        <<100, 50, 500, 0, 0>>, <<200, 100, 1000, 50, 50>>,
        <<500, 200, 2000, 100, 50>>, <<1000, 500, 5000, 500, 200>>,
        <<10000, 1000, 10000, 1000, 500>>,
        <<100, 0, 0, 0, 0>>, <<0, 100, 0, 0, 0>>, <<0, 0, 1000, 0, 0>>,
        <<0, 0, 0, 100, 0>>, <<0, 0, 0, 0, 100>>, <<10, 20, 100, 5, 3>>,
        <<-10, -5, -100, -10, -5>>,
        <<1000000, 100000, 10000000, 100000, 50000>>}}
    \cup {<<NumZero, NumZero, NumDyadic(1999, -1), NumZero, NumZero>>}

\* contributions alone, the nearest doubles below 1000: 1000 - j * 2^-43
JustBelow ==
    {<<NumZero, NumZero, NumAdd(NumInt(1000), NumDyadic(-j, -43)),
       NumZero, NumZero>> : j \in 1..MaxUlps}

\* one metric moved away from a base tuple, down (below 0 where the base
\* has 0) as well as up, in steps of 1 follower, 5 repositories,
\* 7 contributions, 1 star, 1 fork
Bases == {<<50, 0, 0, 0, 0>>, <<100, 50, 503, 0, 0>>}

StepOf == <<1, 5, 7, 1, 1>>

Moved(b, i, d) ==
    Ints([j \in 1..5 |-> b[j] + (IF j = i THEN d * StepOf[i] ELSE 0)])

Neighbours ==
    {Moved(b, i, d) : b \in Bases, i \in 1..5, d \in -MaxDelta..MaxDelta}

\* numbers that are not finite
NonFinite ==
    {<<x, NumZero, NumZero, NumZero, NumZero>> :
        x \in {NumNaN, NumInf(FALSE), NumInf(TRUE)}}
    \cup {<<NumInf(FALSE), NumInf(TRUE), NumZero, NumZero, NumZero>>}

\* pairs of tuples with the same weighted sum, 100: followers exchanged
\* with forks; 1 repository against 10 contributions; 3 followers against
\* 2 stars.  The same pairs with the contributions a few units in the last
\* place lower: 120 - 7 * 2^-46, 760 - 2^-43 and 770 - 2^-43.
ExchangePairs ==
    {Ints(t) : t \in {
        <<0, 0, 120, 2, 41>>, <<41, 0, 120, 2, 0>>,
        <<0, 1, 760, 1, 10>>, <<0, 0, 770, 1, 10>>,
        <<3, 0, 0, 0, 47>>, <<0, 0, 0, 2, 47>>}}
    \cup {<<NumInt(t[1]), NumInt(t[2]),
            NumAdd(NumInt(t[3]), NumDyadic(-t[6], t[7])),
            NumInt(t[4]), NumInt(t[5])>> : t \in {
        <<0, 0, 120, 2, 41, 7, -46>>, <<41, 0, 120, 2, 0, 7, -46>>,
        <<0, 1, 760, 1, 10, 1, -43>>, <<0, 0, 770, 1, 10, 1, -43>>}}

Inputs == ThresholdProbes \cup TestTuples \cup JustBelow \cup Neighbours
          \cup NonFinite \cup ExchangePairs

MaxLen == 4

Alphabet == {"@", " ", "a"}

\* the argument strings of the tests
TestUsernames == {
    <<"@", "o", "c", "t", "o", "c", "a", "t">>,
    <<"o", "c", "t", "o", "c", "a", "t">>,
    <<" ", " ", "o", "c", "t", "o", "c", "a", "t", " ", " ">>,
    <<" ", " ", "@", "o", "c", "t", "o", "c", "a", "t", " ", " ">>,
    <<>>, <<"@">>, <<" ", " ", " ">>,
    <<"u", "s", "e", "r", "@", "n", "a", "m", "e">>,
    <<"@", "u", "s", "e", "r", "@", "n", "a", "m", "e">>,
    <<"@", "@", "o", "c", "t", "o", "c", "a", "t">>,
    <<"\t", "@", "a", "\n">>}

Usernames ==
    UNION {[1..n -> Alphabet] : n \in 0..MaxLen} \cup TestUsernames

---------------------------------------------------------------------------
(* The configuration tables SIZES and LANGUAGE_COLORS.  A color is the     *)
(* sequence of its characters.                                             *)

\* the table with the mobile preset turned on its side
SIZES_MobileLandscape ==
    [desktop |-> [width |-> 2560, height |-> 1440],
     mobile |-> [width |-> 2556, height |-> 1179],
     small |-> [width |-> 320, height |-> 240]]

SIZES ==
    [desktop |-> [width |-> 2560, height |-> 1440],
     mobile |-> [width |-> 1179, height |-> 2556],
     small |-> [width |-> 320, height |-> 240]]

\* the table with Vue given the color of Dart
LANGUAGE_COLORS_VueAsDart ==
       ("JavaScript" :> <<"#", "f", "1", "e", "0", "5", "a">>)
    @@ ("TypeScript" :> <<"#", "3", "1", "7", "8", "c", "6">>)
    @@ ("Python" :> <<"#", "3", "5", "7", "2", "A", "5">>)
    @@ ("Java" :> <<"#", "b", "0", "7", "2", "1", "9">>)
    @@ ("Go" :> <<"#", "0", "0", "A", "D", "D", "8">>)
    @@ ("Rust" :> <<"#", "d", "e", "a", "5", "8", "4">>)
    @@ ("Ruby" :> <<"#", "7", "0", "1", "5", "1", "6">>)
    @@ ("PHP" :> <<"#", "4", "F", "5", "D", "9", "5">>)
    @@ ("C++" :> <<"#", "f", "3", "4", "b", "7", "d">>)
    @@ ("C" :> <<"#", "5", "5", "5", "5", "5", "5">>)
    @@ ("C#" :> <<"#", "1", "7", "8", "6", "0", "0">>)
    @@ ("Swift" :> <<"#", "f", "f", "a", "c", "4", "5">>)
    @@ ("Kotlin" :> <<"#", "A", "9", "7", "B", "F", "F">>)
    @@ ("Dart" :> <<"#", "0", "0", "B", "4", "A", "B">>)
    @@ ("Shell" :> <<"#", "8", "9", "e", "0", "5", "1">>)
    @@ ("HTML" :> <<"#", "e", "3", "4", "c", "2", "6">>)
    @@ ("CSS" :> <<"#", "5", "6", "3", "d", "7", "c">>)
    @@ ("Vue" :> <<"#", "0", "0", "B", "4", "A", "B">>)
    @@ ("Svelte" :> <<"#", "f", "f", "3", "e", "0", "0">>)

LANGUAGE_COLORS ==
       ("JavaScript" :> <<"#", "f", "1", "e", "0", "5", "a">>)
    @@ ("TypeScript" :> <<"#", "3", "1", "7", "8", "c", "6">>)
    @@ ("Python" :> <<"#", "3", "5", "7", "2", "A", "5">>)
    @@ ("Java" :> <<"#", "b", "0", "7", "2", "1", "9">>)
    @@ ("Go" :> <<"#", "0", "0", "A", "D", "D", "8">>)
    @@ ("Rust" :> <<"#", "d", "e", "a", "5", "8", "4">>)
    @@ ("Ruby" :> <<"#", "7", "0", "1", "5", "1", "6">>)
    @@ ("PHP" :> <<"#", "4", "F", "5", "D", "9", "5">>)
    @@ ("C++" :> <<"#", "f", "3", "4", "b", "7", "d">>)
    @@ ("C" :> <<"#", "5", "5", "5", "5", "5", "5">>)
    @@ ("C#" :> <<"#", "1", "7", "8", "6", "0", "0">>)
    @@ ("Swift" :> <<"#", "f", "f", "a", "c", "4", "5">>)
    @@ ("Kotlin" :> <<"#", "A", "9", "7", "B", "F", "F">>)
    @@ ("Dart" :> <<"#", "0", "0", "B", "4", "A", "B">>)
    @@ ("Shell" :> <<"#", "8", "9", "e", "0", "5", "1">>)
    @@ ("HTML" :> <<"#", "e", "3", "4", "c", "2", "6">>)
    @@ ("CSS" :> <<"#", "5", "6", "3", "d", "7", "c">>)
    @@ ("Vue" :> <<"#", "4", "1", "b", "8", "8", "3">>)
    @@ ("Svelte" :> <<"#", "f", "f", "3", "e", "0", "0">>)

\* the tables by name, and the state of a reader that has read nothing
Tables == [SIZES |-> SIZES, LANGUAGE_COLORS |-> LANGUAGE_COLORS]

TableNames == {"SIZES", "LANGUAGE_COLORS"}

NoLookup == [table |-> "none", key |-> "none", value |-> <<>>]

---------------------------------------------------------------------------
(* The Button components, as the tests render and click them.              *)

Buttons == {"Button", "PrimaryButton", "SecondaryButton"}

---------------------------------------------------------------------------
(* The top-language ranking.  The object languageCount is the sequence of  *)
(* its entries in key order, which for names that are not integers is the  *)
(* order they were inserted in; the counts are small integers, on which    *)
(* b - a is exact.                                                         *)

Min(a, b) == IF a <= b THEN a ELSE b

\* the comparator with its operands exchanged: a - b
Compare_Ascending(x, y) == x.count - y.count

\* the comparator ([, a], [, b]) => b - a
Compare(x, y) == y.count - x.count

\* an insertion that puts e before the entries it compares equal to
RECURSIVE InsertStable_BeforeEqual(_, _)
InsertStable_BeforeEqual(sorted, e) ==
    IF sorted = <<>> THEN <<e>>
    ELSE IF Compare(Head(sorted), e) < 0
         THEN <<Head(sorted)>> \o InsertStable_BeforeEqual(Tail(sorted), e)
         ELSE <<e>> \o sorted

\* .sort(compare) is stable: an entry goes behind every entry that the
\* comparator does not put after it
RECURSIVE InsertStable(_, _)
InsertStable(sorted, e) ==
    IF sorted = <<>> THEN <<e>>
    ELSE IF Compare(Head(sorted), e) <= 0
         THEN <<Head(sorted)>> \o InsertStable(Tail(sorted), e)
         ELSE <<e>> \o sorted

RECURSIVE SortEntries(_)
SortEntries(entries) ==
    IF entries = <<>> THEN <<>>
    ELSE InsertStable(SortEntries(SubSeq(entries, 1, Len(entries) - 1)),
                      entries[Len(entries)])

\* .slice(0, end)
SliceFromStart(s, end) == SubSeq(s, 1, Min(end, Len(s)))

\* the ranking that keeps two names
TopLanguages_TwoNames(entries) ==
    LET kept == SliceFromStart(SortEntries(entries), 2)
    IN  [i \in 1..Len(kept) |-> kept[i].lang]

\* the ranking without the sort
TopLanguages_NoSort(entries) ==
    LET kept == SliceFromStart(entries, 3)
    IN  [i \in 1..Len(kept) |-> kept[i].lang]

\* Object.entries(languageCount).sort(...).slice(0, 3).map(([lang]) => lang)
TopLanguages(entries) ==
    LET kept == SliceFromStart(SortEntries(entries), 3)
    IN  [i \in 1..Len(kept) |-> kept[i].lang]

MaxLanguageCount == 3

LanguageNames == {"JavaScript", "Python", "TypeScript", "Go"}

Entry(l, c) == [lang |-> l, count |-> c]

\* the objects of the tests
TestLanguageCounts == {
    <<Entry("JavaScript", 15), Entry("Python", 8), Entry("TypeScript", 20),
      Entry("Go", 5)>>,
    <<Entry("JavaScript", 10), Entry("Python", 20), Entry("TypeScript", 15),
      Entry("Go", 5), Entry("Rust", 12)>>,
    <<Entry("JavaScript", 10), Entry("Python", 20)>>,
    <<>>,
    <<Entry("JavaScript", 10), Entry("Python", 10),
      Entry("TypeScript", 5)>>}

\* every object with some of the four names as keys, in every order, and
\* counts from 1 to MaxLanguageCount
LanguageCounts ==
    UNION {{e \in [1..n -> {Entry(l, c) : l \in LanguageNames,
                                          c \in 1..MaxLanguageCount}] :
               \A i, j \in 1..n : e[i].lang = e[j].lang => i = j} :
           n \in 0..Cardinality(LanguageNames)}
    \cup TestLanguageCounts

---------------------------------------------------------------------------
(* The contribution total.  A week is the record of its contributionDays,  *)
(* a day the record of its contributionCount, an integer.                  *)

\* the inner reduce with a callback that returns the day's count alone
RECURSIVE ReduceDays_DropsSum(_, _)
ReduceDays_DropsSum(days, s) ==
    IF days = <<>> THEN s
    ELSE ReduceDays_DropsSum(Tail(days),
                             NumInt(Head(days).contributionCount))

\* week.contributionDays.reduce((s, day) => s + day.contributionCount, 0)
RECURSIVE ReduceDays(_, _)
ReduceDays(days, s) ==
    IF days = <<>> THEN s
    ELSE ReduceDays(Tail(days),
                    NumAdd(s, NumInt(Head(days).contributionCount)))

\* the outer reduce with a callback that returns the week's sum alone
RECURSIVE ReduceWeeks_DropsSum(_, _)
ReduceWeeks_DropsSum(ws, sum) ==
    IF ws = <<>> THEN sum
    ELSE ReduceWeeks_DropsSum(Tail(ws),
                              ReduceDays(Head(ws).contributionDays, NumZero))

\* weeks.reduce((sum, week) => sum + (the week's reduce), 0)
RECURSIVE ReduceWeeks(_, _)
ReduceWeeks(ws, sum) ==
    IF ws = <<>> THEN sum
    ELSE ReduceWeeks(Tail(ws),
                     NumAdd(sum, ReduceDays(Head(ws).contributionDays,
                                            NumZero)))

TotalContributions(ws) == ReduceWeeks(ws, NumZero)

MaxWeeks == 2

MaxDays == 2

ContributionCounts == {0, 2, 5}

Week(counts) ==
    [contributionDays |->
        [i \in 1..Len(counts) |-> [contributionCount |-> counts[i]]]]

\* the weeks of the tests
TestWeeks == {
    <<Week(<<5, 3>>), Week(<<2, 4>>)>>,
    <<>>,
    <<Week(<<0, 0>>), Week(<<0>>)>>}

WeekChoices ==
    {Week(c) : c \in UNION {[1..n -> ContributionCounts] : n \in 0..MaxDays}}

WeekLists ==
    UNION {[1..n -> WeekChoices] : n \in 0..MaxWeeks} \cup TestWeeks

---------------------------------------------------------------------------
(* The repository totals.  A repository record is a function on the field  *)
(* names it has; a record without a field reads as undefined there.        *)

\* repo[field] without the default: undefined in a sum is NaN
FieldOrZero_NoDefault(repo, field) ==
    IF field \in DOMAIN repo THEN NumInt(repo[field]) ELSE NumNaN

\* (repo[field] || 0): undefined and 0 are falsy
FieldOrZero(repo, field) ==
    IF field \in DOMAIN repo /\ repo[field] # 0
    THEN NumInt(repo[field]) ELSE NumZero

\* repos.reduce((sum, repo) => sum + (repo[field] || 0), 0)
RECURSIVE ReduceRepos(_, _, _)
ReduceRepos(rs, field, sum) ==
    IF rs = <<>> THEN sum
    ELSE ReduceRepos(Tail(rs), field, NumAdd(sum, FieldOrZero(Head(rs), field)))

TotalOf(rs, field) == ReduceRepos(rs, field, NumZero)

MaxRepos == 2

StatCounts == {0, 8, 50}

Fields == {"stargazers_count", "forks_count"}

NoFields == [f \in {} |-> 0]

Stars(n) == [f \in {"stargazers_count"} |-> n]

Forks(n) == [f \in {"forks_count"} |-> n]

\* the repository lists of the tests
TestRepos == {
    <<Stars(100), Stars(50), Stars(25)>>,
    <<Forks(10), Forks(5), Forks(8)>>,
    <<Stars(100), NoFields, Stars(50)>>,
    <<>>}

\* records with any of the two fields, each with any of the counts
RepoChoices == UNION {[D -> StatCounts] : D \in SUBSET Fields}

RepoLists == UNION {[1..n -> RepoChoices] : n \in 0..MaxRepos} \cup TestRepos

---------------------------------------------------------------------------
(* calculateRarity with one metric alone: every count from 0 to MaxAlone   *)
(* of one metric, the other four 0.                                        *)

MaxAlone == 1000

Alone(i, n) == Ints([j \in 1..5 |-> IF j = i THEN n ELSE 0])

AloneInputs == {Alone(i, n) : i \in 1..5, n \in 0..MaxAlone}

MaxClicks == 2

---------------------------------------------------------------------------
(* Week lists with the counts 0 and 5 only, for the totals of their parts  *)
(* and rearrangements.                                                     *)

FewWeekChoices == {Week(c) : c \in UNION {[1..n -> {0, 5}] : n \in 0..MaxDays}}

FewWeekLists == UNION {[1..n -> FewWeekChoices] : n \in 0..MaxWeeks}

---------------------------------------------------------------------------
(* The form controls, as the tests render and change them: a Checkbox      *)
(* that starts unchecked, a TextInput that starts empty, a PrimerSelect    *)
(* with the options 1 and 2 that starts at 1.                              *)

Controls == {"Checkbox", "TextInput", "PrimerSelect"}

InitialValue == [Checkbox |-> FALSE, TextInput |-> "", PrimerSelect |-> "1"]

Texts == {"new value", "typing"}

OptionValues == {"1", "2"}

MaxChanges == 3

\* a control that calls the handler twice for one change
Notify_Twice(calls, value) == Append(Append(calls, value), value)

\* the control calls onChange with the new value
Notify(calls, value) == Append(calls, value)

---------------------------------------------------------------------------
(* The Icon component, as the tests render it: a name, an optional size    *)
(* ('functional', 'branded' or a number of pixels) and an optional label.  *)
(* An optional prop is a field the props may lack.                         *)

IconNames == {"x", "download"}

FunctionalSize == 16

BrandedSize == 30

NumberSizes == {16, 24, 32}

SizeProps ==
    {[kind |-> k, n |-> 0] : k \in {"omitted", "functional", "branded"}}
        \cup {[kind |-> "number", n |-> n] : n \in NumberSizes}

Labels == {"Close"}

IconProps ==
    [name : IconNames, size : SizeProps]
        \cup [name : IconNames, size : SizeProps, label : Labels]

MaxIcons == 3

\* an icon whose branded size is the functional one
IconPixels_BrandedAsFunctional(size) ==
    IF size.kind = "number" THEN size.n ELSE FunctionalSize

\* the pixels of a size prop
IconPixels(size) ==
    CASE size.kind = "number" -> size.n
      [] size.kind = "branded" -> BrandedSize
      [] OTHER -> FunctionalSize

NoAttributes == [a \in {} |-> ""]

\* an icon that has role img whether or not it has a label
IconAttributes_RoleAlways(props) ==
    IF "label" \in DOMAIN props
    THEN ("role" :> "img") @@ ("aria-label" :> props.label)
    ELSE ("role" :> "img")

\* the accessibility attributes of the svg
IconAttributes(props) ==
    IF "label" \in DOMAIN props
    THEN ("role" :> "img") @@ ("aria-label" :> props.label)
    ELSE NoAttributes

\* the svg element an Icon renders
IconSvg(props) ==
    [style |-> [width |-> IconPixels(props.size),
                height |-> IconPixels(props.size)],
     attributes |-> IconAttributes(props)]

---------------------------------------------------------------------------
(* The test runner with the setup file loaded: tests run one at a time,    *)
(* in any order; a test renders trees into the document and queries it;    *)
(* after each test the afterEach hook of the setup file runs.              *)

Tests ==
    {"renders an SVG element", "renders x icon correctly",
     "renders download icon correctly"}

MaxRenders == 2

\* cleanup of the testing library: unmounts every tree rendered with render
Cleanup(trees) == {}

\* a setup file whose hook does not call cleanup
AfterEach_NoCleanup(trees) == trees

\* afterEach(() => { cleanup(); })
AfterEach(trees) == Cleanup(trees)

TreesOf(test, trees) == {tree \in trees : tree.test = test}

---------------------------------------------------------------------------
(* State machine: a caller makes one calculateRarity call after another;   *)
(* the state keeps the latest call and the one before it.                  *)

Init ==
    /\ metrics = <<>>
    /\ powerLevel = NumZero
    /\ rarity = "none"
    /\ prevMetrics = <<>>
    /\ prevPower = NumZero
    /\ prevRarity = "none"
    /\ username = <<>>
    /\ cleaned = <<>>
    /\ pc = "idle"
    /\ languageCount = <<>>
    /\ topLanguages = <<>>
    /\ weeks = <<>>
    /\ total = NumZero
    /\ repositories = <<>>
    /\ totalStars = NumZero
    /\ totalForks = NumZero
    /\ lookup = NoLookup
    /\ prevLookup = NoLookup
    /\ disabled = [b \in Buttons |-> FALSE]
    /\ handlerCalls = [b \in Buttons |-> 0]
    /\ clicks = [b \in Buttons |-> [enabled |-> 0, disabled |-> 0]]
    /\ controlValue = InitialValue
    /\ userChanges = [c \in Controls |-> 0]
    /\ changeCalls = [c \in Controls |-> <<>>]
    /\ icons = <<>>
    /\ running = "none"
    /\ finished = {}
    /\ mounted = {}
    /\ observed = {}

\* What each call of the model computes.  The function is pure, so the call
\* of an argument tuple is evaluated once and looked up afterwards.
Evaluated ==
    [t \in Inputs |->
        [powerLevel |-> PowerLevel(t[1], t[2], t[3], t[4], t[5]),
         returned   |-> calculateRarity(t[1], t[2], t[3], t[4], t[5])]]

CallCalculateRarity(t) ==
    /\ metrics' = t
    /\ powerLevel' = Evaluated[t].powerLevel
    /\ rarity' = Evaluated[t].returned
    /\ prevMetrics' = metrics
    /\ prevPower' = powerLevel
    /\ prevRarity' = rarity
    /\ UNCHANGED <<usernameVars, pc, languageVars, contributionVars,
                   statsVars, tableVars, buttonVars,
                   controlVars, iconVars, runnerVars>>

Next == \E t \in Inputs : CallCalculateRarity(t)

Spec == Init /\ [][Next]_vars

\* the same for getCleanUsername
CallGetCleanUsername(s) ==
    /\ username' = s
    /\ cleaned' = getCleanUsername(s)
    /\ UNCHANGED <<rarityVars, pc, languageVars, contributionVars,
                   statsVars, tableVars, buttonVars,
                   controlVars, iconVars, runnerVars>>

NextUsername == \E s \in Usernames : CallGetCleanUsername(s)

SpecUsername == Init /\ [][NextUsername]_vars

---------------------------------------------------------------------------
(* One calculateRarity call with one metric alone, made while pc is idle.  *)

CallAlone(t) ==
    /\ pc' = "done"
    /\ metrics' = t
    /\ powerLevel' = PowerLevel(t[1], t[2], t[3], t[4], t[5])
    /\ rarity' = calculateRarity(t[1], t[2], t[3], t[4], t[5])
    /\ UNCHANGED <<prevMetrics, prevPower, prevRarity, usernameVars,
                   languageVars, contributionVars, statsVars, tableVars,
                   buttonVars,
                   controlVars, iconVars, runnerVars>>

NextAlone == pc = "idle" /\ \E t \in AloneInputs : CallAlone(t)

SpecAlone == Init /\ [][NextAlone]_vars

---------------------------------------------------------------------------
(* The ranking and the totals: each is computed once, while pc is idle,    *)
(* from any of its inputs.                                                 *)

ComputeTopLanguages(lc) ==
    /\ pc' = "done"
    /\ languageCount' = lc
    /\ topLanguages' = TopLanguages(lc)
    /\ UNCHANGED <<rarityVars, usernameVars, contributionVars, statsVars,
                   tableVars, buttonVars,
                   controlVars, iconVars, runnerVars>>

NextLanguages ==
    pc = "idle" /\ \E lc \in LanguageCounts : ComputeTopLanguages(lc)

SpecLanguages == Init /\ [][NextLanguages]_vars

ComputeTotal(ws) ==
    /\ pc' = "done"
    /\ weeks' = ws
    /\ total' = TotalContributions(ws)
    /\ UNCHANGED <<rarityVars, usernameVars, languageVars, statsVars,
                   tableVars, buttonVars,
                   controlVars, iconVars, runnerVars>>

NextContributions == pc = "idle" /\ \E ws \in WeekLists : ComputeTotal(ws)

SpecContributions == Init /\ [][NextContributions]_vars

ComputeStats(rs) ==
    /\ pc' = "done"
    /\ repositories' = rs
    /\ totalStars' = TotalOf(rs, "stargazers_count")
    /\ totalForks' = TotalOf(rs, "forks_count")
    /\ UNCHANGED <<rarityVars, usernameVars, languageVars, contributionVars,
                   tableVars, buttonVars,
                   controlVars, iconVars, runnerVars>>

NextStats == pc = "idle" /\ \E rs \in RepoLists : ComputeStats(rs)

SpecStats == Init /\ [][NextStats]_vars

---------------------------------------------------------------------------
(* A reader of the configuration tables reads one entry after another; the *)
(* state keeps the entry read last and the one read before it.             *)

ReadEntry(t, k) ==
    /\ lookup' = [table |-> t, key |-> k, value |-> Tables[t][k]]
    /\ prevLookup' = lookup
    /\ UNCHANGED <<rarityVars, usernameVars, pc, languageVars,
                   contributionVars, statsVars, buttonVars,
                   controlVars, iconVars, runnerVars>>

NextTables ==
    \E t \in TableNames : \E k \in DOMAIN Tables[t] : ReadEntry(t, k)

SpecTables == Init /\ [][NextTables]_vars

---------------------------------------------------------------------------
(* The buttons: each can be rendered again with another disabled prop, and *)
(* clicked.  A click on an enabled button calls its onClick handler once;  *)
(* a disabled button does not dispatch the click.                          *)

Render(b, d) ==
    /\ disabled[b] # d
    /\ disabled' = [disabled EXCEPT ![b] = d]
    /\ UNCHANGED <<handlerCalls, clicks, rarityVars, usernameVars, pc,
                   languageVars, contributionVars, statsVars, tableVars,
                   controlVars, iconVars, runnerVars>>

\* a button that calls the handler whether disabled or not
Click_IgnoresDisabled(b) ==
    /\ clicks[b].enabled + clicks[b].disabled < MaxClicks
    /\ clicks' = [clicks EXCEPT ![b] =
                     IF disabled[b]
                     THEN [@ EXCEPT !.disabled = @ + 1]
                     ELSE [@ EXCEPT !.enabled = @ + 1]]
    /\ handlerCalls' = [handlerCalls EXCEPT ![b] = @ + 1]
    /\ UNCHANGED <<disabled, rarityVars, usernameVars, pc, languageVars,
                   contributionVars, statsVars, tableVars,
                   controlVars, iconVars, runnerVars>>

Click(b) ==
    /\ clicks[b].enabled + clicks[b].disabled < MaxClicks
    /\ clicks' = [clicks EXCEPT ![b] =
                     IF disabled[b]
                     THEN [@ EXCEPT !.disabled = @ + 1]
                     ELSE [@ EXCEPT !.enabled = @ + 1]]
    /\ handlerCalls' = [handlerCalls EXCEPT ![b] =
                           IF disabled[b] THEN @ ELSE @ + 1]
    /\ UNCHANGED <<disabled, rarityVars, usernameVars, pc, languageVars,
                   contributionVars, statsVars, tableVars,
                   controlVars, iconVars, runnerVars>>

NextButton ==
    \E b \in Buttons :
        \/ Click(b)
        \/ \E d \in BOOLEAN : Render(b, d)

SpecButton == Init /\ [][NextButton]_vars

---------------------------------------------------------------------------
(* Either total, computed once.                                            *)

NextTotals ==
    /\ pc = "idle"
    /\ \/ \E ws \in FewWeekLists : ComputeTotal(ws)
       \/ \E rs \in RepoLists : ComputeStats(rs)

SpecTotals == Init /\ [][NextTotals]_vars

---------------------------------------------------------------------------
(* The form controls: a click on the Checkbox, a change of the text of     *)
(* the TextInput, a change of the selection of the PrimerSelect.           *)

Changed(c, value) ==
    /\ userChanges[c] < MaxChanges
    /\ controlValue' = [controlValue EXCEPT ![c] = value]
    /\ userChanges' = [userChanges EXCEPT ![c] = @ + 1]
    /\ changeCalls' = [changeCalls EXCEPT ![c] = Notify(@, value)]
    /\ UNCHANGED <<rarityVars, usernameVars, pc, languageVars,
                   contributionVars, statsVars, tableVars, buttonVars,
                   iconVars, runnerVars>>

ClickCheckbox == Changed("Checkbox", ~controlValue["Checkbox"])

ChangeText(text) ==
    /\ text # controlValue["TextInput"]
    /\ Changed("TextInput", text)

ChangeSelection(option) ==
    /\ option # controlValue["PrimerSelect"]
    /\ Changed("PrimerSelect", option)

NextControls ==
    \/ ClickCheckbox
    \/ \E text \in Texts : ChangeText(text)
    \/ \E option \in OptionValues : ChangeSelection(option)

SpecControls == Init /\ [][NextControls]_vars

---------------------------------------------------------------------------
(* Icons rendered one after another into the same container.               *)

RenderIcon(props) ==
    /\ Len(icons) < MaxIcons
    /\ icons' = Append(icons, [props |-> props, svg |-> IconSvg(props)])
    /\ UNCHANGED <<rarityVars, usernameVars, pc, languageVars,
                   contributionVars, statsVars, tableVars, buttonVars,
                   controlVars, runnerVars>>

NextIcons == \E props \in IconProps : RenderIcon(props)

SpecIcons == Init /\ [][NextIcons]_vars

---------------------------------------------------------------------------
(* The run of the tests of a file.                                         *)

StartTest(test) ==
    /\ running = "none"
    /\ test \notin finished
    /\ running' = test
    /\ UNCHANGED <<finished, mounted, observed>>
    /\ UNCHANGED <<rarityVars, usernameVars, pc, languageVars,
                   contributionVars, statsVars, tableVars, buttonVars,
                   controlVars, iconVars>>

\* render(...) in the running test
RenderTree ==
    /\ running # "none"
    /\ Cardinality(TreesOf(running, mounted)) < MaxRenders
    /\ mounted' = mounted \cup
            {[test |-> running,
              n |-> Cardinality(TreesOf(running, mounted)) + 1]}
    /\ UNCHANGED <<running, finished, observed>>
    /\ UNCHANGED <<rarityVars, usernameVars, pc, languageVars,
                   contributionVars, statsVars, tableVars, buttonVars,
                   controlVars, iconVars>>

\* a query of the document in the running test: it finds what is mounted
QueryDocument ==
    /\ running # "none"
    /\ observed' = observed \cup
            {[by |-> running, saw |-> tree] : tree \in mounted}
    /\ UNCHANGED <<running, finished, mounted>>
    /\ UNCHANGED <<rarityVars, usernameVars, pc, languageVars,
                   contributionVars, statsVars, tableVars, buttonVars,
                   controlVars, iconVars>>

\* the running test ends, passed or failed, and the hook runs
FinishTest ==
    /\ running # "none"
    /\ mounted' = AfterEach(mounted)
    /\ finished' = finished \cup {running}
    /\ running' = "none"
    /\ UNCHANGED observed
    /\ UNCHANGED <<rarityVars, usernameVars, pc, languageVars,
                   contributionVars, statsVars, tableVars, buttonVars,
                   controlVars, iconVars>>

NextRunner ==
    \/ \E test \in Tests : StartTest(test)
    \/ RenderTree
    \/ QueryDocument
    \/ FinishTest

SpecRunner == Init /\ [][NextRunner]_vars


---------------------------------------------------------------------------
(* What the claims are stated with.                                        *)

\* the tiers in ascending order, and the threshold each tier above common
\* starts at
TierOrder == <<"common", "uncommon", "rare", "epic", "legendary", "mythical">>

Rank(t) == CHOOSE i \in 1..6 : TierOrder[i] = t

LowerBound == <<100, 300, 800, 2000, 5000>>

Called == rarity # "none"

CalledTwice == prevRarity # "none"

\* an integer of at most 24 bits, and its value
IsInt(x) == x.k = "fin" /\ x.e >= 0 /\ BBitLen(x.m) + x.e <= 24

RECURSIVE BToInt(_)
BToInt(a) == IF a = <<>> THEN 0 ELSE Head(a) + Base * BToInt(Tail(a))

IntOf(x) == (IF x.neg THEN -1 ELSE 1) * BToInt(BShl(x.m, x.e))

AllInt(t) == \A i \in 1..5 : IsInt(t[i])

\* ten times the power level of a tuple of integers, in exact arithmetic
ExactTenths(t) ==
    20 * IntOf(t[1]) + 10 * IntOf(t[2]) + IntOf(t[3]) + 30 * IntOf(t[4])
    + 20 * IntOf(t[5])

\* the tier of the highest threshold that p (a number) reaches
HighestReached(p) ==
    LET hit == {i \in 1..5 : NumGe(p, NumInt(LowerBound[i]))}
    IN  IF hit = {} THEN "common"
        ELSE TierOrder[1 + CHOOSE i \in hit : \A j \in hit : j <= i]

\* the same for ten times an exact power level
HighestReachedTenths(p10) ==
    LET hit == {i \in 1..5 : p10 >= 10 * LowerBound[i]}
    IN  IF hit = {} THEN "common"
        ELSE TierOrder[1 + CHOOSE i \in hit : \A j \in hit : j <= i]

\* b is a with metric i replaced
DiffersOnlyAt(a, b, i) == \A j \in 1..5 : j # i => a[j] = b[j]

---------------------------------------------------------------------------
(* The claims.                                                             *)

\* C1: calculateRarity returns the tier of the first threshold, taken in
\* descending order, that powerLevel reaches (common when it reaches none),
\* where powerLevel is followers*2 + repos*1 + contributions*0.1 + stars*3
\* + forks*2: for integer metrics the tier is the one exact arithmetic
\* gives, and with contributions a multiple of 10 powerLevel is exactly
\* that sum.
C1_FirstThresholdReached ==
    Called =>
        /\ rarity = HighestReached(powerLevel)
        /\ AllInt(metrics) =>
              /\ rarity = HighestReachedTenths(ExactTenths(metrics))
              /\ IntOf(metrics[3]) % 10 = 0 =>
                    powerLevel = NumInt(ExactTenths(metrics) \div 10)

\* a call with all five metrics non-zero, decided by the third threshold
C1_Witness ==
    /\ metrics = Ints(<<200, 100, 1000, 50, 50>>)
    /\ powerLevel = NumInt(850)
    /\ rarity = "epic"

\* C2: of two calls, the one with the smaller or equal power level never
\* gets the higher tier.
C2_TierMonotoneInPower ==
    CalledTwice /\ NumLe(prevPower, powerLevel) =>
        Rank(prevRarity) <= Rank(rarity)

\* two calls whose power levels lie on the two sides of a threshold
C2_Witness ==
    /\ CalledTwice
    /\ NumLt(prevPower, powerLevel)
    /\ prevRarity = "rare"
    /\ rarity = "epic"

\* C3: a power level exactly at a threshold gets the tier that starts
\* there; one below a threshold and at or above the threshold before it
\* gets the tier just below; 150 followers alone are rare and 149 uncommon.
C3_ThresholdsInclusive ==
    Called =>
        /\ \A i \in 1..5 :
              /\ powerLevel = NumInt(LowerBound[i]) =>
                    rarity = TierOrder[i + 1]
              /\ /\ NumLt(powerLevel, NumInt(LowerBound[i]))
                 /\ i > 1 => NumGe(powerLevel, NumInt(LowerBound[i - 1]))
                 => rarity = TierOrder[i]
        /\ metrics = Ints(<<150, 0, 0, 0, 0>>) =>
              powerLevel = NumInt(300) /\ rarity = "rare"
        /\ metrics = Ints(<<149, 0, 0, 0, 0>>) => rarity = "uncommon"

\* 149 followers, then 150: one below the threshold 300, then exactly at it
C3_Witness ==
    /\ prevMetrics = Ints(<<149, 0, 0, 0, 0>>)
    /\ prevPower = NumInt(298)
    /\ prevRarity = "uncommon"
    /\ metrics = Ints(<<150, 0, 0, 0, 0>>)
    /\ powerLevel = NumInt(300)
    /\ rarity = "rare"

NonNegative(t) == \A i \in 1..5 : NumGe(t[i], NumZero)

\* C4: with all metrics non-negative, a call that differs from the call
\* before it in one metric only, which is larger, has a power level at
\* least as large.
C4_PowerNonDecreasing ==
    /\ CalledTwice
    /\ NonNegative(prevMetrics)
    /\ NonNegative(metrics)
    /\ \E i \in 1..5 :
          NumLt(prevMetrics[i], metrics[i])
          /\ DiffersOnlyAt(prevMetrics, metrics, i)
    => NumLe(prevPower, powerLevel)

\* forks raised from 0, the rest unchanged, and the power level grew
C4_Witness ==
    /\ CalledTwice
    /\ NonNegative(prevMetrics)
    /\ prevMetrics[5] = NumZero
    /\ NumLt(NumZero, metrics[5])
    /\ DiffersOnlyAt(prevMetrics, metrics, 5)
    /\ NumLt(prevPower, powerLevel)

\* C5: every call returns one of the six tiers, whatever the numbers:
\* negative, fractional, very large, infinite or NaN.
C5_Total ==
    Called =>
        rarity \in {"common", "uncommon", "rare", "epic", "legendary",
                    "mythical"}

\* the call with NaN after the call with the very large metrics
C5_Witness ==
    /\ prevMetrics = Ints(<<1000000, 100000, 10000000, 100000, 50000>>)
    /\ prevRarity = "mythical"
    /\ metrics[1] = NumNaN
    /\ rarity = "common"

\* C6: negative metrics are taken as they are.  Five negative metrics give
\* common; a metric that is negative where the call before had 0, the rest
\* unchanged, gives a strictly lower power level (finite metrics); and a
\* tuple of integers with a negative one among them gets the tier of the
\* exact weighted sum, the negative terms included.
C6_NegativeLowers ==
    Called =>
        /\ (\A i \in 1..5 : NumLt(metrics[i], NumZero)) => rarity = "common"
        /\ AllInt(metrics) /\ (\E i \in 1..5 : metrics[i].neg) =>
              rarity = HighestReachedTenths(ExactTenths(metrics))
        /\ \A i \in 1..5 :
              /\ CalledTwice
              /\ \A j \in 1..5 : prevMetrics[j].k = "fin"
              /\ prevMetrics[i] = NumZero
              /\ NumLt(metrics[i], NumZero)
              /\ metrics[i].k = "fin"
              /\ DiffersOnlyAt(prevMetrics, metrics, i)
              => NumLt(powerLevel, prevPower)

\* 50 followers are uncommon; with -5 repositories beside them, common
C6_Witness ==
    /\ prevMetrics = Ints(<<50, 0, 0, 0, 0>>)
    /\ prevRarity = "uncommon"
    /\ metrics = Ints(<<50, -5, 0, 0, 0>>)
    /\ powerLevel = NumInt(95)
    /\ rarity = "common"

\* C7: with integer metrics beside it, a contribution count whose exact
\* power level 2*followers + repos + contributions/10 + 3*stars + 2*forks
\* is below a threshold, by whatever fraction, gets a tier below that
\* threshold's (contributions/10 < T - rest iff contributions < 10*(T - rest)).
C7_ExactlyBelowStaysBelow ==
    /\ Called
    /\ \A i \in {1, 2, 4, 5} : IsInt(metrics[i])
    /\ metrics[3].k = "fin"
    => \A i \in 1..5 :
          LET rest == ExactTenths([metrics EXCEPT ![3] = NumZero])
          IN  NumLt(metrics[3], NumInt(10 * LowerBound[i] - rest))
              => Rank(rarity) <= i

HexDigits ==
    {"0", "1", "2", "3", "4", "5", "6", "7", "8", "9",
     "A", "B", "C", "D", "E", "F", "a", "b", "c", "d", "e", "f"}

\* C9: the value a call returns is a key of RARITY_LEVELS; the table has
\* exactly the six tiers, each with a name, a color of '#' and six
\* hexadecimal digits, and a gradient of two stops.
C9_LookupNeverMisses ==
    Called =>
        /\ rarity \in DOMAIN RARITY_LEVELS
        /\ DOMAIN RARITY_LEVELS = {TierOrder[i] : i \in 1..6}
        /\ \A key \in DOMAIN RARITY_LEVELS :
              LET level == RARITY_LEVELS[key]
              IN  /\ DOMAIN level = {"name", "color", "gradient"}
                  /\ level.name # ""
                  /\ Len(level.color) = 7
                  /\ level.color[1] = "#"
                  /\ \A i \in 2..7 : level.color[i] \in HexDigits
                  /\ Len(level.gradient) = 2

\* a call that returned the last key of the table
C9_Witness ==
    /\ metrics = Ints(<<2500, 0, 0, 0, 0>>)
    /\ rarity = "mythical"
    /\ RARITY_LEVELS[rarity].name = "Mythical"

RECURSIVE CountAt(_)
CountAt(s) ==
    IF s = <<>> THEN 0
    ELSE (IF Head(s) = "@" THEN 1 ELSE 0) + CountAt(Tail(s))

\* t occurs in s as a run of consecutive characters
IsPartOf(t, s) ==
    \E i \in 1..(Len(s) + 1) :
        i + Len(t) - 1 <= Len(s) /\ SubSeq(s, i, i + Len(t) - 1) = t

\* C10: getCleanUsername removes one '@' when it is the first character
\* and no '@' otherwise: the result is a run of the argument's characters
\* with all its '@' but that one; the four examples of the tests hold.
C10_OnlyLeadingAt ==
    /\ IsPartOf(cleaned, username)
    /\ CountAt(cleaned) =
          CountAt(username)
          - (IF username # <<>> /\ Head(username) = "@" THEN 1 ELSE 0)
    /\ username = <<"@", "o", "c", "t", "o", "c", "a", "t">> =>
          cleaned = <<"o", "c", "t", "o", "c", "a", "t">>
    /\ username = <<"@", "@", "o", "c", "t", "o", "c", "a", "t">> =>
          cleaned = <<"@", "o", "c", "t", "o", "c", "a", "t">>
    /\ username = <<"u", "s", "e", "r", "@", "n", "a", "m", "e">> =>
          cleaned = username
    /\ username = <<"@", "u", "s", "e", "r", "@", "n", "a", "m", "e">> =>
          cleaned = <<"u", "s", "e", "r", "@", "n", "a", "m", "e">>

\* two '@' in front and one inside: the first went, the other two stayed
C10_Witness ==
    /\ username = <<"@", "@", "a", "@">>
    /\ cleaned = <<"@", "a", "@">>

\* the number of whitespace characters s begins with
LeadingSpaces(s) ==
    CHOOSE k \in 0..Len(s) :
        /\ \A i \in 1..k : s[i] \in WhiteSpace
        /\ k = Len(s) \/ s[k + 1] \notin WhiteSpace

\* C11: getCleanUsername removes the leading '@' first and trims afterwards.
\* An '@' that stands behind leading whitespace is therefore not at the
\* start when the removal runs, and stays: the result begins with the
\* argument's first character that is not whitespace, '  @octocat  ' gives
\* '@octocat'.  An '@' at the start that is followed by whitespace goes, and
\* so does that whitespace: the result never begins or ends with whitespace.
C11_AtRemovedBeforeTrim ==
    /\ cleaned # <<>> =>
          /\ Head(cleaned) \notin WhiteSpace
          /\ cleaned[Len(cleaned)] \notin WhiteSpace
    /\ (username # <<>> /\ Head(username) \in WhiteSpace) =>
          LET k == LeadingSpaces(username) IN
              IF k = Len(username) THEN cleaned = <<>>
              ELSE /\ Head(cleaned) = username[k + 1]
                   /\ CountAt(cleaned) = CountAt(username)
    /\ (Len(username) >= 2 /\ username[1] = "@"
          /\ username[2] \in WhiteSpace) =>
          LET rest == SubSeq(username, 2, Len(username))
              k == LeadingSpaces(rest) IN
              /\ CountAt(cleaned) = CountAt(username) - 1
              /\ IF k = Len(rest) THEN cleaned = <<>>
                 ELSE Head(cleaned) = rest[k + 1]
    /\ username = <<" ", " ", "@", "o", "c", "t", "o", "c", "a", "t",
                    " ", " ">> =>
          cleaned = <<"@", "o", "c", "t", "o", "c", "a", "t">>

\* the '@' behind two spaces stayed, the spaces around it went
C11_Witness ==
    /\ username = <<" ", " ", "@", "o", "c", "t", "o", "c", "a", "t",
                    " ", " ">>
    /\ cleaned = <<"@", "o", "c", "t", "o", "c", "a", "t">>

\* the '@' in front went and the whitespace behind it with it
C11_WitnessAtThenSpace ==
    /\ username = <<"@", " ", "a", " ">>
    /\ cleaned = <<"a">>

\* the keys of the object languageCount, the count and the place of a key
Keys == {languageCount[i].lang : i \in 1..Len(languageCount)}

PlaceOf(l) == CHOOSE i \in 1..Len(languageCount) : languageCount[i].lang = l

CountOf(l) == languageCount[PlaceOf(l)].count

Returned == {topLanguages[i] : i \in 1..Len(topLanguages)}

\* C12: the ranking returns names of the mapping ordered by count
\* descending and cut to the first three: min(3, number of entries) names,
\* each a key of the mapping, their counts never rising along the result,
\* and no key that was cut off has a higher count than one that was
\* returned; fewer than three entries are all returned, the empty mapping
\* gives the empty list, and the three examples of the tests hold.
C12_TopThreeByCount ==
    pc = "done" =>
        /\ Len(topLanguages) = Min(3, Len(languageCount))
        /\ Returned \subseteq Keys
        /\ Len(languageCount) < 3 => Returned = Keys
        /\ languageCount = <<>> => topLanguages = <<>>
        /\ \A i, j \in 1..Len(topLanguages) :
              i < j => CountOf(topLanguages[i]) >= CountOf(topLanguages[j])
        /\ \A k \in Keys \ Returned :
              \A r \in Returned : CountOf(k) <= CountOf(r)
        /\ languageCount = <<Entry("JavaScript", 15), Entry("Python", 8),
                             Entry("TypeScript", 20), Entry("Go", 5)>> =>
              topLanguages = <<"TypeScript", "JavaScript", "Python">>
        /\ languageCount = <<Entry("JavaScript", 10), Entry("Python", 20),
                             Entry("TypeScript", 15), Entry("Go", 5),
                             Entry("Rust", 12)>> =>
              topLanguages = <<"Python", "TypeScript", "Rust">>
        /\ languageCount = <<Entry("JavaScript", 10),
                             Entry("Python", 20)>> =>
              topLanguages = <<"Python", "JavaScript">>

\* four languages, the one with the lowest count cut off
C12_Witness ==
    /\ pc = "done"
    /\ languageCount = <<Entry("JavaScript", 15), Entry("Python", 8),
                         Entry("TypeScript", 20), Entry("Go", 5)>>
    /\ topLanguages = <<"TypeScript", "JavaScript", "Python">>

\* C13: entries with equal counts keep their insertion order: of two
\* returned names with equal counts the one inserted earlier stands first,
\* and when a returned name and a name that was cut off have equal counts
\* the returned one was inserted earlier.
C13_TiesKeepInsertionOrder ==
    pc = "done" =>
        /\ \A i, j \in 1..Len(topLanguages) :
              (i < j /\ CountOf(topLanguages[i]) = CountOf(topLanguages[j]))
                  => PlaceOf(topLanguages[i]) < PlaceOf(topLanguages[j])
        /\ \A k \in Keys \ Returned :
              \A r \in Returned :
                  CountOf(k) = CountOf(r) => PlaceOf(r) < PlaceOf(k)

\* a tie of three for the second to fourth position: the two inserted
\* first were kept, in their order
C13_Witness ==
    /\ pc = "done"
    /\ languageCount = <<Entry("Go", 1), Entry("Python", 1),
                         Entry("TypeScript", 2), Entry("JavaScript", 1)>>
    /\ topLanguages = <<"TypeScript", "Go", "Python">>

\* the sum f[1] + ... + f[n] of integers
RECURSIVE SumTo(_, _)
SumTo(f, n) == IF n = 0 THEN 0 ELSE SumTo(f, n - 1) + f[n]

\* the counts of the days of week w, and their sum
DayCounts(w) ==
    [d \in 1..Len(weeks[w].contributionDays) |->
        weeks[w].contributionDays[d].contributionCount]

WeekSum(w) == SumTo(DayCounts(w), Len(weeks[w].contributionDays))

\* C14: the contribution total is the sum of contributionCount over every
\* day of every week; the empty week sequence totals 0, and so does a
\* sequence whose days all count 0; the weeks 5 + 3 and 2 + 4 total 14.
C14_TotalIsSumOfDays ==
    pc = "done" =>
        /\ total = NumInt(SumTo([w \in 1..Len(weeks) |-> WeekSum(w)],
                                Len(weeks)))
        /\ weeks = <<>> => total = NumZero
        /\ (\A w \in 1..Len(weeks) :
               \A d \in 1..Len(weeks[w].contributionDays) :
                   DayCounts(w)[d] = 0) => total = NumZero
        /\ weeks = <<Week(<<5, 3>>), Week(<<2, 4>>)>> => total = NumInt(14)

\* two weeks, both with counts above 0
C14_Witness ==
    /\ pc = "done"
    /\ weeks = <<Week(<<5, 3>>), Week(<<2, 4>>)>>
    /\ total = NumInt(14)

\* what a record contributes to the total of a field
Contribution(r, field) == IF field \in DOMAIN r THEN r[field] ELSE 0

SumOfField(field) ==
    SumTo([i \in 1..Len(repositories) |->
              Contribution(repositories[i], field)], Len(repositories))

\* C15: the total of stars and the total of forks are the sums of the
\* field over all records, a record without the field contributing 0; the
\* totals are numbers (no NaN, nothing raised); the empty list totals 0;
\* the three examples of the tests hold.
C15_MissingFieldCountsZero ==
    pc = "done" =>
        /\ totalStars.k = "fin" /\ totalForks.k = "fin"
        /\ totalStars = NumInt(SumOfField("stargazers_count"))
        /\ totalForks = NumInt(SumOfField("forks_count"))
        /\ repositories = <<>> =>
              totalStars = NumZero /\ totalForks = NumZero
        /\ repositories = <<Stars(100), Stars(50), Stars(25)>> =>
              totalStars = NumInt(175)
        /\ repositories = <<Forks(10), Forks(5), Forks(8)>> =>
              totalForks = NumInt(23)
        /\ repositories = <<Stars(100), NoFields, Stars(50)>> =>
              totalStars = NumInt(150)

\* a record without fields between two with stars
C15_Witness ==
    /\ pc = "done"
    /\ repositories = <<Stars(100), NoFields, Stars(50)>>
    /\ totalStars = NumInt(150)
    /\ totalForks = NumZero

\* the three tests whose title names another tier than they expect: the
\* arguments, the power level, the tier the title names
TitledTests == {
    [args |-> <<30, 20, 100, 0, 0>>, power |-> 90, titled |-> "uncommon"],
    [args |-> <<500, 200, 2000, 100, 50>>, power |-> 1800,
     titled |-> "legendary"],
    [args |-> <<1000, 500, 5000, 500, 200>>, power |-> 4900,
     titled |-> "mythical"]}

\* C16: the tuples (30,20,100,0,0), (500,200,2000,100,50) and
\* (1000,500,5000,500,200) have the power levels 90, 1800 and 4900 and are
\* common, epic and legendary: the tier the thresholds give, which is the
\* tier next below the one the title of their test names.
C16_ThresholdsOverTitles ==
    \A t \in TitledTests :
        metrics = Ints(t.args) =>
            /\ powerLevel = NumInt(t.power)
            /\ rarity = HighestReached(powerLevel)
            /\ Rank(rarity) + 1 = Rank(t.titled)
            /\ t.power = 90 => rarity = "common"
            /\ t.power = 1800 => rarity = "epic"
            /\ t.power = 4900 => rarity = "legendary"

\* the second of the tuples after the third
C16_Witness ==
    /\ prevMetrics = Ints(<<1000, 500, 5000, 500, 200>>)
    /\ prevPower = NumInt(4900)
    /\ prevRarity = "legendary"
    /\ metrics = Ints(<<500, 200, 2000, 100, 50>>)
    /\ powerLevel = NumInt(1800)
    /\ rarity = "epic"

\* the smallest count of each metric that alone reaches uncommon
SmallestAlone == <<50, 100, 1000, 34, 50>>

\* metric i is the only one that is not 0
OnlyMetric(i) == \A j \in 1..5 : j # i => metrics[j] = NumZero

\* C17: with one metric alone, a count of 100 gives uncommon for
\* followers, repositories and forks and rare for stars; 100 contributions
\* are common and 1000 are uncommon; and a count of one metric alone
\* reaches uncommon or more exactly from 50 followers, 100 repositories,
\* 1000 contributions, 34 stars, 50 forks on.
C17_WeightsAlone ==
    pc = "done" =>
        /\ \A i \in 1..5 :
              OnlyMetric(i) =>
                  (Rank(rarity) >= 2 <=> IntOf(metrics[i]) >= SmallestAlone[i])
        /\ \A i \in {1, 2, 5} : metrics = Alone(i, 100) => rarity = "uncommon"
        /\ metrics = Alone(4, 100) => rarity = "rare"
        /\ metrics = Alone(3, 100) => rarity = "common"
        /\ metrics = Alone(3, 1000) => rarity = "uncommon"

\* 34 stars alone: 102, the first count of stars that is uncommon
C17_Witness ==
    /\ pc = "done"
    /\ metrics = Alone(4, 34)
    /\ powerLevel = NumInt(102)
    /\ rarity = "uncommon"

\* C18: SIZES has exactly the presets desktop, mobile and small; every
\* preset has a width and a height above 0; desktop (2560 x 1440) and small
\* are wider than high, mobile is higher than wide; small is below each
\* other preset in width and in height; desktop is 16:9, that is
\* 2560 * 9 = 1440 * 16.
C18_SizePresets ==
    lookup.table = "SIZES" =>
        /\ DOMAIN Tables.SIZES = {"desktop", "mobile", "small"}
        /\ lookup.value.width > 0 /\ lookup.value.height > 0
        /\ lookup.key \in {"desktop", "small"} =>
              lookup.value.width > lookup.value.height
        /\ lookup.key = "mobile" => lookup.value.height > lookup.value.width
        /\ lookup.key = "desktop" =>
              /\ lookup.value.width = 2560 /\ lookup.value.height = 1440
              /\ lookup.value.width * 9 = lookup.value.height * 16
        /\ (lookup.key = "small" /\ prevLookup.table = "SIZES"
              /\ prevLookup.key # "small") =>
              /\ lookup.value.width < prevLookup.value.width
              /\ lookup.value.height < prevLookup.value.height

\* small read after mobile
C18_Witness ==
    /\ prevLookup.table = "SIZES" /\ prevLookup.key = "mobile"
    /\ prevLookup.value.width = 1179 /\ prevLookup.value.height = 2556
    /\ lookup.table = "SIZES" /\ lookup.key = "small"
    /\ lookup.value.width = 320 /\ lookup.value.height = 240

\* a color in lower case
LowerOf(c) ==
    IF c = "A" THEN "a" ELSE IF c = "B" THEN "b" ELSE IF c = "C" THEN "c"
    ELSE IF c = "D" THEN "d" ELSE IF c = "E" THEN "e"
    ELSE IF c = "F" THEN "f" ELSE c

LowerCase(s) == [i \in 1..Len(s) |-> LowerOf(s[i])]

\* C19: LANGUAGE_COLORS has at least 15 languages; every color is '#' and
\* six hexadecimal digits; no color is white (#ffffff) or black (#000000);
\* two different languages never have the same color, in whatever case the
\* digits are written.
C19_LanguageColors ==
    lookup.table = "LANGUAGE_COLORS" =>
        /\ Cardinality(DOMAIN Tables.LANGUAGE_COLORS) >= 15
        /\ Len(lookup.value) = 7
        /\ lookup.value[1] = "#"
        /\ \A i \in 2..7 : lookup.value[i] \in HexDigits
        /\ LowerCase(lookup.value)
              # <<"#", "f", "f", "f", "f", "f", "f">>
        /\ LowerCase(lookup.value)
              # <<"#", "0", "0", "0", "0", "0", "0">>
        /\ (prevLookup.table = "LANGUAGE_COLORS"
              /\ prevLookup.key # lookup.key) =>
              LowerCase(prevLookup.value) # LowerCase(lookup.value)

\* Vue read after Dart: two colors that differ
C19_Witness ==
    /\ prevLookup.table = "LANGUAGE_COLORS" /\ prevLookup.key = "Dart"
    /\ prevLookup.value = <<"#", "0", "0", "B", "4", "A", "B">>
    /\ lookup.table = "LANGUAGE_COLORS" /\ lookup.key = "Vue"
    /\ lookup.value = <<"#", "4", "1", "b", "8", "8", "3">>

\* C20: whatever the sequence of clicks and renderings, the onClick
\* handler of a Button, a PrimaryButton or a SecondaryButton has been called
\* once for each click made while the button was not disabled, and a click
\* made while it was disabled has called nothing.
C20_HandlerCalledPerEnabledClick ==
    \A b \in Buttons : handlerCalls[b] = clicks[b].enabled

\* the Button clicked once while enabled and once while disabled, the
\* PrimaryButton once while disabled
C20_Witness ==
    /\ clicks["Button"] = [enabled |-> 1, disabled |-> 1]
    /\ handlerCalls["Button"] = 1
    /\ clicks["PrimaryButton"] = [enabled |-> 0, disabled |-> 1]
    /\ handlerCalls["PrimaryButton"] = 0

\* C25: whatever the metrics, negative ones included, a call that differs
\* from the call before it in one metric only, which is larger, never gets
\* a lower tier.
C25_TierMonotoneInEachMetric ==
    /\ CalledTwice
    /\ \E i \in 1..5 :
          NumLt(prevMetrics[i], metrics[i])
          /\ DiffersOnlyAt(prevMetrics, metrics, i)
    => Rank(prevRarity) <= Rank(rarity)

\* repositories raised from -5 to 0 beside 50 followers: common, then
\* uncommon
C25_Witness ==
    /\ prevMetrics = Ints(<<50, -5, 0, 0, 0>>)
    /\ prevRarity = "common"
    /\ metrics = Ints(<<50, 0, 0, 0, 0>>)
    /\ rarity = "uncommon"

\* the tuples of non-negative integers among the arguments of the calls
CountTuples == {t \in Inputs : AllInt(t) /\ NonNegative(t)}

\* C26: each of the six tiers, and so each key of RARITY_LEVELS, is what
\* calculateRarity returns for some tuple of non-negative integers.
C26_EveryTierProduced ==
    /\ \A tier \in DOMAIN RARITY_LEVELS \cup
                    {TierOrder[i] : i \in 1..6} :
          \E t \in CountTuples : Evaluated[t].returned = tier
    /\ (Called /\ metrics \in CountTuples) =>
          rarity \in DOMAIN RARITY_LEVELS

\* a call that returned mythical after one that returned legendary, both
\* for non-negative integers
C26_Witness ==
    /\ prevMetrics = Ints(<<2499, 0, 0, 0, 0>>)
    /\ prevRarity = "legendary"
    /\ metrics = Ints(<<2500, 0, 0, 0, 0>>)
    /\ rarity = "mythical"

\* y = x + n for an integer n, with nothing rounded away
PlusExactly(x, n, y) ==
    /\ x.k = "fin" /\ y.k = "fin"
    /\ NumAdd(x, NumInt(n)) = y
    /\ NumAdd(y, NumInt(-n)) = x

\* a and b are the same but for metrics i and j
SameBut(a, b, i, j) == \A l \in 1..5 : l \notin {i, j} => a[l] = b[l]

AllFinite(t) == \A i \in 1..5 : t[i].k = "fin"

\* the call has the followers and the forks of the call before exchanged
FollowersForksExchanged ==
    /\ metrics[1] = prevMetrics[5]
    /\ metrics[5] = prevMetrics[1]
    /\ SameBut(prevMetrics, metrics, 1, 5)

\* the call before has 1 repository more, the call 10 contributions more
RepositoryForContributions ==
    /\ PlusExactly(metrics[2], 1, prevMetrics[2])
    /\ PlusExactly(prevMetrics[3], 10, metrics[3])
    /\ SameBut(prevMetrics, metrics, 2, 3)

\* the call before has 3 followers more, the call 2 stars more
FollowersForStars ==
    /\ PlusExactly(metrics[1], 3, prevMetrics[1])
    /\ PlusExactly(prevMetrics[4], 2, metrics[4])
    /\ SameBut(prevMetrics, metrics, 1, 4)

\* C27: the tier depends on the metrics through the weighted sum only: of
\* two calls with finite metrics, the second with followers and forks
\* exchanged, or with 10 contributions in place of 1 repository, or with
\* 2 stars in place of 3 followers, both get the same tier.
C27_TierThroughWeightedSumOnly ==
    /\ CalledTwice
    /\ AllFinite(prevMetrics) /\ AllFinite(metrics)
    /\ \/ FollowersForksExchanged
       \/ RepositoryForContributions
       \/ FollowersForStars
    => rarity = prevRarity

StartsWithAt(s) == s # <<>> /\ Head(s) = "@"

\* whitespace in front and an '@' right behind it
AtAfterLeadingSpace(s) ==
    LET k == LeadingSpaces(s)
    IN  k >= 1 /\ k < Len(s) /\ s[k + 1] = "@"

TwoLeadingAts(s) == Len(s) >= 2 /\ s[1] = "@" /\ s[2] = "@"

\* an '@' in front and, behind it and any whitespace, another '@'
AtBehindLeadingAt(s) ==
    StartsWithAt(s) /\ StartsWithAt(TrimStart(Tail(s)))

\* what C28 says whatever the inputs are that leave an '@' in front
CleanedIsTrimmedAndShorter ==
    /\ cleaned # <<>> =>
          /\ Head(cleaned) \notin WhiteSpace
          /\ cleaned[Len(cleaned)] \notin WhiteSpace
    /\ Len(cleaned) <= Len(username)
    /\ getCleanUsername(cleaned) # cleaned <=> StartsWithAt(cleaned)
    /\ ~StartsWithAt(cleaned) => getCleanUsername(cleaned) = cleaned

\* C28 as stated: the result has no whitespace at either end and is not
\* longer than the argument; cleaning it again changes it exactly when it
\* starts with '@', and that is the case exactly for an argument with an
\* '@' behind leading whitespace or with two or more '@' in front.
C28_AsStated ==
    /\ CleanedIsTrimmedAndShorter
    /\ StartsWithAt(cleaned) <=>
          (AtAfterLeadingSpace(username) \/ TwoLeadingAts(username))

\* C28, amended: as above, but the result starts with '@' exactly for an
\* argument with an '@' behind leading whitespace, or with an '@' in front
\* that has another '@' behind it, directly or after whitespace.
C28_CleaningAgain ==
    /\ CleanedIsTrimmedAndShorter
    /\ StartsWithAt(cleaned) <=>
          (AtAfterLeadingSpace(username) \/ AtBehindLeadingAt(username))

\* an '@', a space and another '@': the result still starts with '@'
C28_Witness ==
    /\ username = <<"@", " ", "@", "a">>
    /\ cleaned = <<"@", "a">>
    /\ getCleanUsername(cleaned) = <<"a">>

\* C29: the returned names are pairwise distinct keys of the mapping; along
\* the list the count of a name is never above the count of the name
\* before it; and a key that is not returned has a count at most the count
\* of each returned name.
C29_RankingInvariants ==
    pc = "done" =>
        /\ \A i \in 1..Len(topLanguages) : topLanguages[i] \in Keys
        /\ \A i, j \in 1..Len(topLanguages) :
              topLanguages[i] = topLanguages[j] => i = j
        /\ \A i \in 1..(Len(topLanguages) - 1) :
              CountOf(topLanguages[i + 1]) <= CountOf(topLanguages[i])
        /\ \A k \in Keys :
              k \notin Returned =>
                  \A i \in 1..Len(topLanguages) :
                      CountOf(k) <= CountOf(topLanguages[i])

\* five languages: Go and JavaScript, with the lowest counts, left out
C29_Witness ==
    /\ pc = "done"
    /\ languageCount = <<Entry("JavaScript", 10), Entry("Python", 20),
                         Entry("TypeScript", 15), Entry("Go", 5),
                         Entry("Rust", 12)>>
    /\ topLanguages = <<"Python", "TypeScript", "Rust">>

\* s in the order p, a permutation of its indices
Reordered(s, p) == [i \in 1..Len(s) |-> s[p[i]]]

\* the week with its days in the order p
DaysReordered(week, p) ==
    [contributionDays |-> Reordered(week.contributionDays, p)]

\* the record r with the field set to v
WithField(r, field, v) ==
    [g \in DOMAIN r \cup {field} |-> IF g = field THEN v ELSE r[g]]

\* the total of a field is additive, independent of the order, and the
\* same when a record without the field gets the field with 0
FieldTotalAdditive(field, fieldTotal) ==
    /\ \A i \in 0..Len(repositories) :
          fieldTotal =
              NumAdd(TotalOf(SubSeq(repositories, 1, i), field),
                     TotalOf(SubSeq(repositories, i + 1, Len(repositories)),
                             field))
    /\ \A p \in Permutations(1..Len(repositories)) :
          TotalOf(Reordered(repositories, p), field) = fieldTotal
    /\ \A i \in 1..Len(repositories) :
          field \notin DOMAIN repositories[i] =>
              TotalOf([repositories EXCEPT
                          ![i] = WithField(repositories[i], field, 0)],
                      field) = fieldTotal

\* C30: the totals are additive and independent of the order.  The total
\* of the weeks is the sum of the totals of any two parts they are cut
\* into, and stays the same when the weeks, or the days of a week, are
\* reordered; the same for the totals of stars and of forks over the
\* records, where moreover a record without the field can be given the
\* field with 0 without changing the total.
C30_TotalsAdditive ==
    pc = "done" =>
        /\ \A i \in 0..Len(weeks) :
              total = NumAdd(TotalContributions(SubSeq(weeks, 1, i)),
                             TotalContributions(SubSeq(weeks, i + 1,
                                                       Len(weeks))))
        /\ \A p \in Permutations(1..Len(weeks)) :
              TotalContributions(Reordered(weeks, p)) = total
        /\ \A w \in 1..Len(weeks) :
              \A p \in Permutations(1..Len(weeks[w].contributionDays)) :
                  TotalContributions(
                      [weeks EXCEPT ![w] = DaysReordered(weeks[w], p)])
                  = total
        /\ FieldTotalAdditive("stargazers_count", totalStars)
        /\ FieldTotalAdditive("forks_count", totalForks)

\* two weeks of different lengths and sums
C30_Witness ==
    /\ pc = "done"
    /\ weeks = <<Week(<<5>>), Week(<<0, 5>>)>>
    /\ total = NumInt(10)

\* a record without stars before one with stars
C30_WitnessStats ==
    /\ pc = "done"
    /\ repositories = <<Forks(50), Stars(8)>>
    /\ totalStars = NumInt(8)
    /\ totalForks = NumInt(50)

\* C21: each form control has called its onChange handler once for each
\* change the user made, each time with the value the control then had:
\* the Checkbox with its new checked state (true for the first click on the
\* unchecked box), the TextInput with the new text, the PrimerSelect with
\* the value of the option selected.
C21_OnChangeOncePerChange ==
    /\ \A c \in Controls :
          /\ Len(changeCalls[c]) = userChanges[c]
          /\ userChanges[c] > 0 =>
                changeCalls[c][Len(changeCalls[c])] = controlValue[c]
    /\ changeCalls["Checkbox"] # <<>> => changeCalls["Checkbox"][1] = TRUE
    /\ \A i \in 1..Len(changeCalls["Checkbox"]) :
          changeCalls["Checkbox"][i] \in BOOLEAN
    /\ \A i \in 1..Len(changeCalls["TextInput"]) :
          changeCalls["TextInput"][i] \in Texts \cup {""}
    /\ \A i \in 1..Len(changeCalls["PrimerSelect"]) :
          changeCalls["PrimerSelect"][i] \in OptionValues

\* the box clicked twice, the text changed once, option 2 selected
C21_Witness ==
    /\ changeCalls["Checkbox"] = <<TRUE, FALSE>>
    /\ controlValue["Checkbox"] = FALSE
    /\ changeCalls["TextInput"] = <<"new value">>
    /\ changeCalls["PrimerSelect"] = <<"2">>

\* C22: every rendered icon has the attribute role, with the value img,
\* exactly when its label prop was given, and then its aria-label is that
\* label.
C22_RoleImgIffLabel ==
    \A i \in 1..Len(icons) :
        LET props == icons[i].props
            attributes == icons[i].svg.attributes
        IN  /\ "role" \in DOMAIN attributes <=> "label" \in DOMAIN props
            /\ "role" \in DOMAIN attributes => attributes["role"] = "img"
            /\ "label" \in DOMAIN props =>
                  /\ "aria-label" \in DOMAIN attributes
                  /\ attributes["aria-label"] = props.label

\* an icon with the label Close next to one without a label
C22_Witness ==
    /\ Len(icons) >= 2
    /\ "label" \in DOMAIN icons[1].props
    /\ icons[1].svg.attributes["aria-label"] = "Close"
    /\ icons[1].svg.attributes["role"] = "img"
    /\ "label" \notin DOMAIN icons[2].props
    /\ "role" \notin DOMAIN icons[2].svg.attributes

\* C23: every rendered icon is as wide as it is high, and that many pixels
\* are what its own size prop says: 16 when the prop is omitted or is
\* 'functional', 30 when it is 'branded', n when it is the number n,
\* whatever the sizes of the icons rendered with it.
C23_SizeFollowsOwnProp ==
    \A i \in 1..Len(icons) :
        LET size == icons[i].props.size
            style == icons[i].svg.style
        IN  /\ style.width = style.height
            /\ size.kind \in {"omitted", "functional"} => style.width = 16
            /\ size.kind = "branded" => style.width = 30
            /\ size.kind = "number" => style.width = size.n

\* a branded icon, an icon of 24 pixels and one without a size together
C23_Witness ==
    /\ Len(icons) = 3
    /\ icons[1].props.size.kind = "branded"
    /\ icons[1].svg.style.width = 30
    /\ icons[2].props.size = [kind |-> "number", n |-> 24]
    /\ icons[2].svg.style.height = 24
    /\ icons[3].props.size.kind = "omitted"
    /\ icons[3].svg.style.width = 16

\* C24: whatever the order of the tests, between two tests the document
\* holds no rendered tree, every tree in the document is one the running
\* test rendered, and every tree a test found in the document is one that
\* test rendered itself.
C24_TestsIsolated ==
    /\ running = "none" => mounted = {}
    /\ \A tree \in mounted : tree.test = running
    /\ \A o \in observed : o.saw.test = o.by

\* the third test runs, after two tests that rendered and queried, and
\* finds its own tree only
C24_Witness ==
    /\ Cardinality(finished) = 2
    /\ running \in Tests \ finished
    /\ \A test \in finished :
          [by |-> test, saw |-> [test |-> test, n |-> 1]] \in observed
    /\ mounted = {[test |-> running, n |-> 1]}
    /\ [by |-> running, saw |-> [test |-> running, n |-> 1]] \in observed

===========================================================================
